---- MODULE Spec2Model ----
(***************************************************************************)
(* ClickSpeak: the runtime provisioner (scripts/install_app.sh) and the    *)
(* native launcher (src/launcher.c), modelled as processes that share the  *)
(* runtime installation directory on disk.                                 *)
(***************************************************************************)
EXTENDS Integers, Sequences, FiniteSets, TLC

\* ------------------------------------------------------------------ bounds
MaxRuns == 2    \* provisioning runs of install_app.sh in one behaviour
MaxArgs == 2    \* longest process argument vector, argv[0] included

\* ------------------------------------------------- install_app.sh constants
REQUIRED_PYTHON_MAJOR == 3
REQUIRED_PYTHON_MINOR == 12
HomeDir == "/Users/u"                  \* the value of ${HOME} when it is set
RuntimeSuffix == "/Library/Application Support/ClickSpeak/runtime"
RUNTIME_DIR == <<HomeDir, RuntimeSuffix>>   \* "${HOME}/Library/Application Support/ClickSpeak/runtime"
RUNTIME_MARKER_FILE == "marker"        \* .clickspeak-runtime
RUNTIME_PYTHON == "python"             \* ${RUNTIME_DIR}/bin/python3

\* The entries of a runtime directory that the provisioning steps create:
\* python -m venv makes bin/python3, pyvenv.cfg and the bundled pip; the
\* upgrade step adds setuptools and wheel; pip install -e adds the
\* application; the marker is written by the last command.
Files == {RUNTIME_PYTHON, "pyvenv", "pip", "setuptools", "app", RUNTIME_MARKER_FILE}
VenvFiles == {RUNTIME_PYTHON, "pyvenv", "pip"}

\* ------------------------------------------------------------ text values
\* Text is a sequence of tokens; "\n" is the newline character.
ToStr(n) == CASE n = 3 -> "3" [] n = 11 -> "11" [] n = 12 -> "12" [] OTHER -> "?"

\* "${REQUIRED_PYTHON_MAJOR}.${REQUIRED_PYTHON_MINOR}"
RequiredVersionString == <<ToStr(REQUIRED_PYTHON_MAJOR), ".", ToStr(REQUIRED_PYTHON_MINOR)>>

\* $( ... ): the shell's command substitution drops all trailing newlines.
RECURSIVE CommandSubstitution(_)
CommandSubstitution(out) ==
    IF out # <<>> /\ out[Len(out)] = "\n"
    THEN CommandSubstitution(SubSeq(out, 1, Len(out) - 1))
    ELSE out

\* ----------------------------------------------------------- interpreters
\* kind: "none" (no such file), "noexec" (a file that is not executable, or
\* a dangling link), "broken" (executable, but running it fails), "py" (runs
\* and reports major.minor).
NoInterp == [kind |-> "none", major |-> 0, minor |-> 0]
NoExec == [kind |-> "noexec", major |-> 0, minor |-> 0]
Broken == [kind |-> "broken", major |-> 0, minor |-> 0]
Py(M, m) == [kind |-> "py", major |-> M, minor |-> m]

IsExecutable(p) == p.kind \in {"broken", "py"}

\* python_version: exit status and standard output of the version one-liner.
python_version(p) ==
    IF p.kind = "py"
    THEN [rc |-> 0, out |-> <<ToStr(p.major), ".", ToStr(p.minor), "\n">>]
    ELSE [rc |-> 1, out |-> <<>>]

python_is_supported(p) ==
    IF ~IsExecutable(p) THEN FALSE
    ELSE IF python_version(p).rc # 0 THEN FALSE
    ELSE CommandSubstitution(python_version(p).out) = RequiredVersionString

\* ------------------------------------------------- runtime directory state
\* tag[f] = -1: entry f does not exist; tag[f] = k >= 0: entry f was created
\* by provisioning run k (0: before the first run of this behaviour).
NoFiles == [f \in Files |-> -1]
AbsentDir == [exists |-> FALSE, tag |-> NoFiles, python |-> NoInterp, marker |-> <<>>]

Present(d, f) == d.tag[f] # -1

\* [ -x "${RUNTIME_PYTHON}" ]
RuntimePythonExecutable(d) == Present(d, RUNTIME_PYTHON) /\ IsExecutable(d.python)

\* runtime_is_ready without the comparison of the marker's text
runtime_is_ready_any_marker(d) ==
    IF ~RuntimePythonExecutable(d) THEN FALSE
    ELSE IF ~Present(d, RUNTIME_MARKER_FILE) THEN FALSE
    ELSE python_is_supported(d.python)

\* runtime_is_ready comparing the raw bytes of the marker file, newline
\* included, with the required version
runtime_is_ready_raw_marker(d) ==
    IF ~RuntimePythonExecutable(d) THEN FALSE
    ELSE IF ~Present(d, RUNTIME_MARKER_FILE) THEN FALSE
    ELSE IF d.marker # RequiredVersionString THEN FALSE
    ELSE python_is_supported(d.python)

\* runtime_is_ready, as the sequence of early returns of the script
runtime_is_ready(d) ==
    IF ~RuntimePythonExecutable(d) THEN FALSE
    ELSE IF ~Present(d, RUNTIME_MARKER_FILE) THEN FALSE
    ELSE IF CommandSubstitution(d.marker) # RequiredVersionString THEN FALSE
    ELSE python_is_supported(d.python)

\* the interpreters runtime_is_ready runs: the runtime's own, and only when
\* the three checks before python_is_supported passed
ReadyCheckInvocations(d) ==
    IF RuntimePythonExecutable(d) /\ Present(d, RUNTIME_MARKER_FILE)
       /\ CommandSubstitution(d.marker) = RequiredVersionString
    THEN {RUNTIME_PYTHON} ELSE {}

\* ------------------------------------------------------ resolve_host_python
\* h.override: ${CLICKSPEAK_HOST_PYTHON}; h.py312: command -v python3.12;
\* h.py3: command -v python3.  NoInterp: unset / not found on PATH.
CandidateNames == <<"override", "py312", "py3">>

RECURSIVE BuildCandidates(_, _)
BuildCandidates(h, i) ==
    IF i > Len(CandidateNames) THEN <<>>
    ELSE (IF h[CandidateNames[i]].kind # "none" THEN <<CandidateNames[i]>> ELSE <<>>)
         \o BuildCandidates(h, i + 1)

\* the loop without its return: the last supported candidate wins
RECURSIVE FirstSupported_last(_, _, _)
FirstSupported_last(h, cands, i) ==
    IF i > Len(cands) THEN 0
    ELSE LET later == FirstSupported_last(h, cands, i + 1)
         IN IF later # 0 THEN later
            ELSE IF python_is_supported(h[cands[i]]) THEN i
            ELSE 0

\* the loop over the candidates: index of the first supported one, 0 if none
RECURSIVE FirstSupported(_, _, _)
FirstSupported(h, cands, i) ==
    IF i > Len(cands) THEN 0
    ELSE IF python_is_supported(h[cands[i]]) THEN i
    ELSE FirstSupported(h, cands, i + 1)

\* the candidate echoed by resolve_host_python, "" when it returns 1
resolve_host_python(h) ==
    LET cands == BuildCandidates(h, 1)
        k == FirstSupported(h, cands, 1)
    IN IF k = 0 THEN "" ELSE cands[k]

\* the host interpreters resolve_host_python runs
ResolveInvocations(h) ==
    LET cands == BuildCandidates(h, 1)
        k == FirstSupported(h, cands, 1)
        last == IF k = 0 THEN Len(cands) ELSE k
    IN {cands[i] : i \in {j \in 1..last : IsExecutable(h[cands[j]])}}

\* ------------------------------------------------------------------ state
VARIABLES
    fs,         \* fs[dir]: the state of runtime directory dir
    ipc,        \* position of the install script
    run,        \* number of the current provisioning run
    host,       \* the host interpreters the install script can find
    bootstrap,  \* ensure_runtime's local bootstrap_python
    invoked,    \* interpreters executed by the current run
    irc,        \* exit status of the install script, -1 while running
    fs0,        \* fs[RUNTIME_DIR] when the current run entered ensure_runtime
    bundle,     \* ${APP_BUNDLE}: its parts, each with the run that wrote it
    legacy,     \* ${LEGACY_APP_BUNDLE} exists
    bundle0,    \* bundle when the current run was started
    legacy0,    \* legacy when the current run was started
    launcher_c, \* the revision of ${PROJECT_DIR}/src/launcher.c
    icns_file,  \* ${PROJECT_DIR}/ClickSpeak.icns exists
    \* ---- the launcher process (src/launcher.c)
    env,        \* the process environment: the names set, and their values
    cwd,        \* the current working directory
    projMarkers,\* i is a member iff ${HOME}<suffixes[i]>/pyproject.toml exists
    argv,       \* the C argument vector; each argument is a byte string
    lpc,        \* position of main()
    runtime_dir,\* main's local runtime_dir
    project_dir,\* main's local project_dir
    config,     \* the PyConfig handed to Py_InitializeFromConfig
    sys_argv,   \* sys.argv of the embedded interpreter
    stderr,     \* what the launcher wrote to the standard error stream
    child,      \* the osascript child process of show_error
    pending,    \* show_error's parameter message
    dialog,     \* the message of the dialog the child displayed
    failure,    \* the launcher-level error that occurred, "" if none
    entry,      \* how the entry point ended: returned, raised, SystemExit
    exitCode    \* exit status of the launcher process, -1 while it runs

avars == <<bundle, legacy, bundle0, legacy0, launcher_c, icns_file>>
ivars == <<ipc, run, host, bootstrap, invoked, irc, fs0, avars>>
lvars == <<env, cwd, projMarkers, argv, lpc, runtime_dir, project_dir, config,
           sys_argv, stderr, child, pending, dialog, failure, entry, exitCode>>
vars == <<fs, ipc, run, host, bootstrap, invoked, irc, fs0,
          bundle, legacy, bundle0, legacy0, launcher_c, icns_file,
          env, cwd, projMarkers, argv, lpc, runtime_dir, project_dir, config,
          sys_argv, stderr, child, pending, dialog, failure, entry, exitCode>>

\* the directory a CLICKSPEAK_RUNTIME_DIR override names
CustomRuntimeDir == <<"/opt/clickspeak-runtime">>
RuntimeDirs == {RUNTIME_DIR, CustomRuntimeDir}

\* ------------------------------------------------------ launcher constants
EnvNames == {"HOME", "CLICKSPEAK_RUNTIME_DIR", "CLICKSPEAK_PROJECT_DIR", "PATH",
             "PYTHONUNBUFFERED", "PYTHONNOUSERSITE", "PYTHONFAULTHANDLER",
             "CLICKSPEAK_BUNDLE_IDENTIFIER", "CLICKSPEAK_APP_NAME",
             "CLICKSPEAK_APP_PATH", "PYTHONPATH"}

\* a path or other text is a sequence of tokens; <<>> as a returned path is
\* the NULL pointer (no function below returns an empty string)
NullPath == <<>>

\* the candidate directories of find_project_dir, in the order of the array
suffixes == <<"/projects/clickspeak", "/clickspeak", "/work/clickspeak",
              "/Workspace/clickspeak", "/Documents/clickspeak">>
ProjectOverrideDir == <<"/src/clickspeak-dev">>
ExePath == <<"/Applications/ClickSpeak.app/Contents/MacOS/ClickSpeak">>
CallerPath == <<"/usr/sbin">>
SitePackages == "/lib/python3.12/site-packages"

MsgNoHome == "HOME environment variable is not set."
MsgNoRuntimeDir == "Could not determine ClickSpeak runtime directory."
MsgNotProvisioned == "ClickSpeak runtime not found. Re-run: bash scripts/install_app.sh"
MsgInitDialog == "Python initialization failed. Re-run: bash scripts/install_app.sh"
MsgInitStderr == "ClickSpeak: Python initialization failed: <err_msg>"

\* "ClickSpeak" as code points, what PyUnicode_FromString("ClickSpeak") makes
AppName == <<67, 108, 105, 99, 107, 83, 112, 101, 97, 107>>

\* ------------------------------------------------------------ environment
getenv(e, n) == IF n \in e.set THEN e.val[n] ELSE NullPath
IsSet(e, n) == n \in e.set
\* the test "env && *env"
NonEmpty(e, n) == n \in e.set /\ e.val[n] # <<>>
setenv(e, n, v) == [set |-> e.set \cup {n}, val |-> [e.val EXCEPT ![n] = v]]

\* -------------------------------------------------------- find_project_dir
\* the loop without its return: the last candidate found wins
RECURSIVE ProbeFrom_last(_, _, _)
ProbeFrom_last(home, markers, i) ==
    IF i > Len(suffixes) THEN NullPath
    ELSE LET later == ProbeFrom_last(home, markers, i + 1)
         IN IF later # NullPath THEN later
            ELSE IF i \in markers THEN home \o <<suffixes[i]>>
            ELSE NullPath

\* the for loop from index i: the first candidate whose pyproject.toml exists
RECURSIVE ProbeFrom(_, _, _)
ProbeFrom(home, markers, i) ==
    IF i > Len(suffixes) THEN NullPath
    ELSE IF i \in markers THEN home \o <<suffixes[i]>>
    ELSE ProbeFrom(home, markers, i + 1)

find_project_dir(e, markers) ==
    IF NonEmpty(e, "CLICKSPEAK_PROJECT_DIR") THEN getenv(e, "CLICKSPEAK_PROJECT_DIR")
    ELSE IF ~IsSet(e, "HOME") THEN NullPath
    ELSE ProbeFrom(getenv(e, "HOME"), markers, 1)

\* get_runtime_dir reading the project override in place of its own
get_runtime_dir_project_variable(e) ==
    IF NonEmpty(e, "CLICKSPEAK_PROJECT_DIR") THEN getenv(e, "CLICKSPEAK_PROJECT_DIR")
    ELSE IF ~IsSet(e, "HOME") THEN NullPath
    ELSE getenv(e, "HOME") \o <<RuntimeSuffix>>

\* ---------------------------------------------------------- get_runtime_dir
get_runtime_dir(e) ==
    IF NonEmpty(e, "CLICKSPEAK_RUNTIME_DIR") THEN getenv(e, "CLICKSPEAK_RUNTIME_DIR")
    ELSE IF ~IsSet(e, "HOME") THEN NullPath
    ELSE getenv(e, "HOME") \o <<RuntimeSuffix>>

\* access(marker, F_OK) == 0 for "<dir>/.clickspeak-runtime"
MarkerAccessible(dir) ==
    dir \in DOMAIN fs /\ Present(fs[dir], RUNTIME_MARKER_FILE)

\* ----------------------------------------------------------- sys.argv
\* PyUnicode_DecodeFSDefault: UTF-8 with surrogateescape; an ASCII byte is
\* its own code point, an undecodable byte b becomes the surrogate U+DC00+b
DecodeByte(b) == IF b < 128 THEN b ELSE 56320 + b
PyUnicode_DecodeFSDefault(arg) == [i \in 1..Len(arg) |-> DecodeByte(arg[i])]

\* sys.argv built without forcing item 0 to the name
BuildSysArgv_keeps_path(av) == [i \in 1..Len(av) |-> PyUnicode_DecodeFSDefault(av[i])]

\* the block that builds sys.argv: a list of argc decoded arguments, then
\* item 0 replaced by the name (PyList_SetItem fails on an empty list)
BuildSysArgv(av) ==
    LET argv_list == [i \in 1..Len(av) |-> PyUnicode_DecodeFSDefault(av[i])]
    IN IF Len(av) >= 1 THEN [argv_list EXCEPT ![1] = AppName] ELSE argv_list

\* ------------------------------------------------------ BuildEnvironment
\* "/opt/homebrew/bin:/usr/local/bin:%s"
NewPath(e) ==
    <<"/opt/homebrew/bin", ":", "/usr/local/bin", ":">>
    \o (IF IsSet(e, "PATH") THEN getenv(e, "PATH") ELSE <<"/usr/bin", ":", "/bin">>)

PythonPath(pdir, rdir) ==
    IF pdir # NullPath
    THEN pdir \o <<"/src", ":">> \o rdir \o <<SitePackages>>
    ELSE rdir \o <<SitePackages>>

\* the setenv calls of main in their order; exeOk: _NSGetExecutablePath == 0
LaunchEnvironment(e, pdir, rdir, exeOk) ==
    LET e1 == setenv(e, "PYTHONUNBUFFERED", <<"1">>)
        e2 == setenv(e1, "PYTHONNOUSERSITE", <<"1">>)
        e3 == setenv(e2, "PYTHONFAULTHANDLER", <<"1">>)
        e4 == setenv(e3, "CLICKSPEAK_BUNDLE_IDENTIFIER", <<"com.lamosty.clickspeak">>)
        e5 == setenv(e4, "CLICKSPEAK_APP_NAME", <<"ClickSpeak">>)
        e6 == setenv(e5, "CLICKSPEAK_RUNTIME_DIR", rdir)
        e7 == IF exeOk THEN setenv(e6, "CLICKSPEAK_APP_PATH", ExePath) ELSE e6
        e8 == setenv(e7, "PATH", NewPath(e7))
    IN setenv(e8, "PYTHONPATH", PythonPath(pdir, rdir))

\* PyConfig_InitPythonConfig: executable unset, parse_argv and site_import on
DefaultConfig == [executable |-> NullPath, parse_argv |-> 1, site_import |-> 1]

\* "%s/bin/python3"
VenvPython(rdir) == rdir \o <<"/bin/python3">>

\* the exit statuses the entry point may pass to sys.exit
SystemExitCodes == {0, 1, 2}

\* the launcher has not been started
LauncherOff ==
    /\ lpc = "off"
    /\ pending = ""
    /\ runtime_dir = NullPath
    /\ project_dir = NullPath
    /\ config = DefaultConfig
    /\ sys_argv = <<>>
    /\ stderr = <<>>
    /\ child = "none"
    /\ dialog = ""
    /\ failure = ""
    /\ entry = "none"
    /\ exitCode = -1

\* ---------------------------------------------------------- initial states
MarkerTexts == { RequiredVersionString \o <<"\n">>,
                 RequiredVersionString,
                 <<ToStr(3), ".", ToStr(11), "\n">>,
                 <<>> }
RuntimeInterps == {NoExec, Broken, Py(3, 11), Py(3, 12)}
HostEnvs == [override : {NoInterp, NoExec, Py(3, 11), Py(3, 12)},
             py312 : {NoInterp, Py(3, 12)},
             py3 : {NoInterp, Py(3, 11), Py(3, 12)}]

\* an installation left by an earlier, completed provisioning
Installed(p, m) ==
    [exists |-> TRUE, tag |-> [f \in Files |-> 0], python |-> p, marker |-> m]
\* the same with the marker file deleted afterwards
Unmarked(p) ==
    [exists |-> TRUE, tag |-> [f \in Files |-> IF f = RUNTIME_MARKER_FILE THEN -1 ELSE 0],
     python |-> p, marker |-> <<>>]

InitialDirs ==
    {AbsentDir}
    \cup {Installed(p, m) : p \in RuntimeInterps, m \in MarkerTexts}
    \cup {Unmarked(p) : p \in RuntimeInterps}

\* the install script has not been started
InstallerIdle ==
    /\ ipc = "idle"
    /\ run = 0
    /\ host = [override |-> NoInterp, py312 |-> NoInterp, py3 |-> NoInterp]
    /\ bootstrap = ""
    /\ invoked = {}
    /\ irc = -1
    /\ fs0 = fs[RUNTIME_DIR]

\* ${APP_BUNDLE} does not exist
NoBundle == [dirs |-> FALSE, plist |-> -1, binary |-> -1, binsrc |-> -1, icns |-> -1, sig |-> -1]

\* no bundle is installed and the checkout has no icon
NothingAssembled ==
    /\ bundle = NoBundle
    /\ legacy = FALSE
    /\ launcher_c = 0
    /\ icns_file = FALSE
    /\ bundle0 = NoBundle
    /\ legacy0 = FALSE

InitInstall ==
    /\ fs \in [RuntimeDirs -> InitialDirs]
    /\ fs[CustomRuntimeDir] = AbsentDir
    /\ InstallerIdle
    /\ NothingAssembled
    /\ env = [set |-> {"HOME"}, val |-> [n \in EnvNames |-> IF n = "HOME" THEN <<HomeDir>> ELSE <<>>]]
    /\ cwd = <<"/">>
    /\ projMarkers = {}
    /\ argv = <<>>
    /\ LauncherOff

\* --------------------------------------------------------- install script
SetDir(d) == [fs EXCEPT ![RUNTIME_DIR] = d]
Dir == fs[RUNTIME_DIR]

\* set -e: a failing command ends the script with a non-zero status
ScriptExit == ipc' = "failed" /\ irc' = 1

\* bash scripts/install_app.sh is started; control reaches ensure_runtime
StartInstall ==
    /\ ipc \in {"idle", "ensured", "done", "failed", "crashed"}
    /\ run < MaxRuns
    /\ run' = run + 1
    /\ host' \in HostEnvs
    /\ ipc' = "ensure"
    /\ bootstrap' = ""
    /\ invoked' = {}
    /\ irc' = -1
    /\ fs0' = Dir
    /\ bundle0' = bundle
    /\ legacy0' = legacy
    /\ UNCHANGED <<fs, bundle, legacy, launcher_c, icns_file>>
    /\ UNCHANGED lvars

\* ensure_runtime with the rm -rf of line 93 ahead of the bootstrap lookup
EnsureRuntimeCheck_rm_first ==
    /\ ipc = "ensure"
    /\ IF runtime_is_ready(Dir)
       THEN /\ ipc' = "ensured"
            /\ irc' = 0
            /\ invoked' = ReadyCheckInvocations(Dir)
            /\ UNCHANGED <<bootstrap, fs>>
       ELSE /\ bootstrap' = resolve_host_python(host)
            /\ invoked' = ReadyCheckInvocations(Dir) \cup ResolveInvocations(host)
            /\ fs' = [fs EXCEPT ![RUNTIME_DIR] = AbsentDir]
            /\ IF bootstrap' = ""
               THEN ScriptExit
               ELSE ipc' = "mkdir" /\ UNCHANGED irc
    /\ UNCHANGED <<run, host, fs0>>
    /\ UNCHANGED <<avars, lvars>>

\* ensure_runtime, lines 82-91: the readiness check and the bootstrap lookup
EnsureRuntimeCheck ==
    /\ ipc = "ensure"
    /\ IF runtime_is_ready(Dir)
       THEN /\ ipc' = "ensured"
            /\ irc' = 0
            /\ invoked' = ReadyCheckInvocations(Dir)
            /\ UNCHANGED bootstrap
       ELSE /\ bootstrap' = resolve_host_python(host)
            /\ invoked' = ReadyCheckInvocations(Dir) \cup ResolveInvocations(host)
            /\ IF bootstrap' = ""
               THEN ScriptExit
               ELSE ipc' = "rm" /\ UNCHANGED irc
    /\ UNCHANGED <<fs, run, host, fs0>>
    /\ UNCHANGED <<avars, lvars>>

\* rm -rf "${RUNTIME_DIR}": the entries are unlinked one at a time, in the
\* order the directory lists them
RmEntry ==
    /\ ipc = "rm"
    /\ \E f \in Files :
        /\ Present(Dir, f)
        /\ fs' = SetDir([Dir EXCEPT !.tag[f] = -1,
                                    !.python = IF f = RUNTIME_PYTHON THEN NoInterp ELSE @,
                                    !.marker = IF f = RUNTIME_MARKER_FILE THEN <<>> ELSE @])
    /\ UNCHANGED ivars
    /\ UNCHANGED lvars

\* rm -f of the marker alone in place of rm -rf of the directory
RmDone_marker_only ==
    /\ ipc = "rm"
    /\ fs' = SetDir([Dir EXCEPT !.tag[RUNTIME_MARKER_FILE] = -1, !.marker = <<>>])
    /\ ipc' = "mkdir"
    /\ UNCHANGED <<run, host, bootstrap, invoked, irc, fs0>>
    /\ UNCHANGED <<avars, lvars>>

\* rm -rf ends: the emptied directory itself is removed (nothing to do when
\* there was none)
RmDone ==
    /\ ipc = "rm"
    /\ \A f \in Files : ~Present(Dir, f)
    /\ fs' = SetDir(AbsentDir)
    /\ ipc' = "mkdir"
    /\ UNCHANGED <<run, host, bootstrap, invoked, irc, fs0>>
    /\ UNCHANGED <<avars, lvars>>

\* rm -rf cannot unlink an entry and returns non-zero
RmFail ==
    /\ ipc = "rm"
    /\ Dir.exists
    /\ ScriptExit
    /\ UNCHANGED <<fs, run, host, bootstrap, invoked, fs0>>
    /\ UNCHANGED <<avars, lvars>>

\* mkdir -p "${RUNTIME_DIR}"
Mkdir ==
    /\ ipc = "mkdir"
    /\ \/ /\ fs' = SetDir([Dir EXCEPT !.exists = TRUE])
          /\ ipc' = "venv"
          /\ UNCHANGED irc
       \/ /\ ScriptExit
          /\ UNCHANGED fs
    /\ UNCHANGED <<run, host, bootstrap, invoked, fs0>>
    /\ UNCHANGED <<avars, lvars>>

\* entries S of the directory (re)created by the current run
Create(d, S) == [d EXCEPT !.tag = [f \in Files |-> IF f \in S THEN run ELSE d.tag[f]]]

\* "${bootstrap_python}" -m venv "${RUNTIME_DIR}": bin/python3 is a link to
\* the bootstrap interpreter; a failing run leaves what it had created
Venv ==
    /\ ipc = "venv"
    /\ \/ /\ fs' = SetDir([Create(Dir, VenvFiles) EXCEPT !.python = host[bootstrap]])
          /\ ipc' = "pip_upgrade"
          /\ UNCHANGED irc
       \/ /\ \E S \in SUBSET VenvFiles :
                /\ S # VenvFiles
                /\ fs' = SetDir([Create(Dir, S) EXCEPT
                                   !.python = IF RUNTIME_PYTHON \in S THEN host[bootstrap] ELSE @])
          /\ ScriptExit
    /\ invoked' = invoked \cup {bootstrap}
    /\ UNCHANGED <<run, host, bootstrap, fs0>>
    /\ UNCHANGED <<avars, lvars>>

\* "${RUNTIME_PYTHON}" -m pip install --upgrade pip setuptools wheel
PipUpgrade ==
    /\ ipc = "pip_upgrade"
    /\ \/ /\ fs' = SetDir(Create(Dir, {"pip", "setuptools"}))
          /\ ipc' = "pip_install"
          /\ UNCHANGED irc
       \/ /\ ScriptExit
          /\ UNCHANGED fs
    /\ invoked' = invoked \cup {RUNTIME_PYTHON}
    /\ UNCHANGED <<run, host, bootstrap, fs0>>
    /\ UNCHANGED <<avars, lvars>>

\* "${RUNTIME_PYTHON}" -m pip install -e "${PROJECT_DIR}"
PipInstall ==
    /\ ipc = "pip_install"
    /\ \/ /\ fs' = SetDir(Create(Dir, {"app"}))
          /\ ipc' = "write_marker"
          /\ UNCHANGED irc
       \/ /\ ScriptExit
          /\ UNCHANGED fs
    /\ invoked' = invoked \cup {RUNTIME_PYTHON}
    /\ UNCHANGED <<run, host, bootstrap, fs0>>
    /\ UNCHANGED <<avars, lvars>>

\* ensure_runtime returning without the printf of line 100
WriteMarker_no_file ==
    /\ ipc = "write_marker"
    /\ ipc' = "ensured"
    /\ irc' = 0
    /\ UNCHANGED <<fs, run, host, bootstrap, invoked, fs0>>
    /\ UNCHANGED <<avars, lvars>>

\* printf "%s\n" "${python_version_line}" > marker: the redirection creates
\* the file, then printf writes the line; a failing write leaves it empty
WriteMarker ==
    /\ ipc = "write_marker"
    /\ \/ /\ fs' = SetDir([Create(Dir, {RUNTIME_MARKER_FILE}) EXCEPT
                             !.marker = RequiredVersionString \o <<"\n">>])
          /\ ipc' = "ensured"
          /\ irc' = 0
       \/ /\ fs' = SetDir(Create(Dir, {RUNTIME_MARKER_FILE}))
          /\ ScriptExit
       \/ /\ UNCHANGED fs
          /\ ScriptExit
    /\ UNCHANGED <<run, host, bootstrap, invoked, fs0>>
    /\ UNCHANGED <<avars, lvars>>

\* the script is killed (or the machine goes down) between two commands
Crash ==
    /\ ipc \in {"ensure", "rm", "mkdir", "venv", "pip_upgrade", "pip_install", "write_marker"}
    /\ ipc' = "crashed"
    /\ UNCHANGED <<fs, run, host, bootstrap, invoked, irc, fs0>>
    /\ UNCHANGED <<avars, lvars>>

NextInstall ==
    \/ StartInstall
    \/ EnsureRuntimeCheck
    \/ RmEntry
    \/ RmDone
    \/ RmFail
    \/ Mkdir
    \/ Venv
    \/ PipUpgrade
    \/ PipInstall
    \/ WriteMarker
    \/ Crash

SpecInstall == InitInstall /\ [][NextInstall]_vars

\* ------------------------------------------- install script, lines 204-214
\* the frame of a step of the script after ensure_runtime
AssemblerFrame ==
    /\ UNCHANGED <<fs, run, host, bootstrap, invoked, fs0, bundle0, legacy0, launcher_c,
                   icns_file>>
    /\ UNCHANGED lvars

\* the legacy bundle is looked for and left in place
RemoveLegacy_kept ==
    /\ ipc = "ensured"
    /\ ipc' = "bundle_dirs"
    /\ UNCHANGED <<irc, legacy, bundle>>
    /\ AssemblerFrame

\* lines 204-206: if [ -d "${LEGACY_APP_BUNDLE}" ]; then rm -rf ...; fi
RemoveLegacy ==
    /\ ipc = "ensured"
    /\ \/ /\ legacy' = FALSE
          /\ ipc' = "bundle_dirs"
          /\ UNCHANGED irc
       \/ /\ legacy
          /\ UNCHANGED legacy
          /\ ScriptExit
    /\ UNCHANGED bundle
    /\ AssemblerFrame

\* write_bundle, lines 192-193: the two mkdir -p
MkdirBundle ==
    /\ ipc = "bundle_dirs"
    /\ \/ /\ bundle' = [bundle EXCEPT !.dirs = TRUE]
          /\ ipc' = "plist"
          /\ UNCHANGED irc
       \/ /\ ~bundle.dirs
          /\ UNCHANGED bundle
          /\ ScriptExit
    /\ UNCHANGED legacy
    /\ AssemblerFrame

\* write_info_plist, lines 103-141: cat > Contents/Info.plist
WriteInfoPlist ==
    /\ ipc = "plist"
    /\ \/ /\ bundle' = [bundle EXCEPT !.plist = run]
          /\ ipc' = "compile"
          /\ UNCHANGED irc
       \/ /\ UNCHANGED bundle
          /\ ScriptExit
    /\ UNCHANGED legacy
    /\ AssemblerFrame

\* compile_launcher, lines 143-188: the include directory is asked of the
\* runtime's interpreter and must exist; cc then writes the binary
CompileLauncher ==
    /\ ipc = "compile"
    /\ IF Dir.python.kind # "py"
       THEN UNCHANGED bundle /\ ScriptExit
       ELSE \E includeOk \in BOOLEAN, ccOk \in BOOLEAN :
              IF ~includeOk \/ ~ccOk
              THEN UNCHANGED bundle /\ ScriptExit
              ELSE /\ bundle' = [bundle EXCEPT !.binary = run, !.binsrc = launcher_c]
                   /\ ipc' = "icns"
                   /\ UNCHANGED irc
    /\ UNCHANGED legacy
    /\ AssemblerFrame

\* write_bundle, lines 196-198: cp -n of the icon, its failure ignored
CopyIcon ==
    /\ ipc = "icns"
    /\ \/ /\ icns_file /\ bundle.icns = -1
          /\ bundle' = [bundle EXCEPT !.icns = run]
       \/ UNCHANGED bundle
    /\ ipc' = "codesign"
    /\ UNCHANGED <<irc, legacy>>
    /\ AssemblerFrame

\* line 210: codesign --force --deep --sign - "${APP_BUNDLE}"
Codesign ==
    /\ ipc = "codesign"
    /\ \/ /\ bundle' = [bundle EXCEPT !.sig = run]
          /\ ipc' = "smoke"
          /\ UNCHANGED irc
       \/ /\ UNCHANGED bundle
          /\ ScriptExit
    /\ UNCHANGED legacy
    /\ AssemblerFrame

\* line 214: the launcher's --check-permissions run, its status ignored
CheckPermissions ==
    /\ ipc = "smoke"
    /\ ipc' = "done"
    /\ irc' = 0
    /\ UNCHANGED <<bundle, legacy>>
    /\ AssemblerFrame

\* the script is killed between two of its commands after ensure_runtime
CrashAssembling ==
    /\ ipc \in {"ensured", "bundle_dirs", "plist", "compile", "icns", "codesign", "smoke"}
    /\ ipc' = "crashed"
    /\ UNCHANGED <<irc, bundle, legacy>>
    /\ AssemblerFrame

\* revisions of src/launcher.c made between runs
MaxEdits == 1

\* the developer edits src/launcher.c while no install is running
EditLauncherSource ==
    /\ ipc \in {"idle", "done", "failed", "crashed"}
    /\ launcher_c < MaxEdits
    /\ launcher_c' = launcher_c + 1
    /\ UNCHANGED <<fs, ipc, run, host, bootstrap, invoked, irc, fs0, bundle, legacy,
                   bundle0, legacy0, icns_file>>
    /\ UNCHANGED lvars

NextPipeline ==
    \/ NextInstall
    \/ RemoveLegacy
    \/ MkdirBundle
    \/ WriteInfoPlist
    \/ CompileLauncher
    \/ CopyIcon
    \/ Codesign
    \/ CheckPermissions
    \/ CrashAssembling
    \/ EditLauncherSource

\* a bundle left by an earlier, successful run of the script
InstalledBundle(icon) ==
    [dirs |-> TRUE, plist |-> 0, binary |-> 0, binsrc |-> 0,
     icns |-> IF icon THEN 0 ELSE -1, sig |-> 0]

InitPipeline ==
    /\ fs \in [RuntimeDirs -> {AbsentDir, Installed(Py(3, 12), RequiredVersionString \o <<"\n">>)}]
    /\ fs[CustomRuntimeDir] = AbsentDir
    /\ InstallerIdle
    /\ icns_file \in BOOLEAN
    /\ bundle \in {NoBundle, InstalledBundle(icns_file)}
    /\ legacy \in BOOLEAN
    /\ launcher_c = 0
    /\ bundle0 = bundle
    /\ legacy0 = legacy
    /\ env = [set |-> {"HOME"}, val |-> [n \in EnvNames |-> IF n = "HOME" THEN <<HomeDir>> ELSE <<>>]]
    /\ cwd = <<"/">>
    /\ projMarkers = {}
    /\ argv = <<>>
    /\ LauncherOff

SpecPipeline == InitPipeline /\ [][NextPipeline]_vars

\* ---------------------------------------------------------------- launcher
\* the launcher binary is executed
Launch ==
    /\ lpc = "off"
    /\ lpc' = "resolve"
    /\ UNCHANGED <<fs, ivars, env, cwd, projMarkers, argv, runtime_dir, project_dir,
                   config, sys_argv, stderr, child, pending, dialog, failure, entry,
                   exitCode>>

\* show_error(message) is entered for launcher-level error f
EnterShowError(f, message) ==
    /\ failure' = f
    /\ dialog' = dialog
    /\ pending' = message
    /\ lpc' = "show_error"

\* ResolvePaths without the test of HOME: only the runtime directory is tested
ResolvePaths_no_home_check ==
    /\ lpc = "resolve"
    /\ runtime_dir' = get_runtime_dir(env)
    /\ project_dir' = find_project_dir(env, projMarkers)
    /\ IF runtime_dir' = NullPath
       THEN EnterShowError("NoHome", MsgNoRuntimeDir)
       ELSE lpc' = "validate" /\ UNCHANGED <<failure, dialog, pending>>
    /\ UNCHANGED <<fs, ivars, env, cwd, projMarkers, argv, config, sys_argv,
                   stderr, child, entry, exitCode>>

\* main, lines 83-95 (ResolvePaths)
ResolvePaths ==
    /\ lpc = "resolve"
    /\ IF ~IsSet(env, "HOME")
       THEN /\ EnterShowError("NoHome", MsgNoHome)
            /\ UNCHANGED <<runtime_dir, project_dir>>
       ELSE /\ runtime_dir' = get_runtime_dir(env)
            /\ project_dir' = find_project_dir(env, projMarkers)
            /\ IF runtime_dir' = NullPath
               THEN EnterShowError("NoHome", MsgNoRuntimeDir)
               ELSE lpc' = "validate" /\ UNCHANGED <<failure, dialog, pending>>
    /\ UNCHANGED <<fs, ivars, env, cwd, projMarkers, argv, config, sys_argv,
                   stderr, child, entry, exitCode>>

\* ValidateRuntime without its return: the error is shown and main goes on
ValidateRuntime_no_return ==
    /\ lpc = "validate"
    /\ failure' = IF ~MarkerAccessible(runtime_dir) THEN "RuntimeNotProvisioned" ELSE failure
    /\ lpc' = "build_env"
    /\ UNCHANGED <<dialog, pending>>
    /\ UNCHANGED <<fs, ivars, env, cwd, projMarkers, argv, runtime_dir, project_dir,
                   config, sys_argv, stderr, child, entry, exitCode>>

\* main, lines 97-103 (ValidateRuntime)
ValidateRuntime ==
    /\ lpc = "validate"
    /\ IF ~MarkerAccessible(runtime_dir)
       THEN EnterShowError("RuntimeNotProvisioned", MsgNotProvisioned)
       ELSE lpc' = "build_env" /\ UNCHANGED <<failure, dialog, pending>>
    /\ UNCHANGED <<fs, ivars, env, cwd, projMarkers, argv, runtime_dir, project_dir,
                   config, sys_argv, stderr, child, entry, exitCode>>

\* main, lines 105-138 (BuildEnvironment); chdir's result is not looked at
BuildEnvironment ==
    /\ lpc = "build_env"
    /\ \E exeOk \in BOOLEAN :
         env' = LaunchEnvironment(env, project_dir, runtime_dir, exeOk)
    /\ \/ /\ project_dir # NullPath
          /\ cwd' = project_dir
       \/ /\ project_dir = NullPath \/ project_dir = ProjectOverrideDir
          /\ cwd' = cwd
    /\ lpc' = "init"
    /\ UNCHANGED <<fs, ivars, projMarkers, argv, runtime_dir, project_dir, config,
                   sys_argv, stderr, child, dialog, pending, failure, entry, exitCode>>

\* main, lines 140-170 and the fail label (InitEmbeddedRuntime)
InitEmbeddedRuntime ==
    /\ lpc = "init"
    /\ \E decoded \in BOOLEAN, setOk \in BOOLEAN, initOk \in BOOLEAN :
         LET cfg == [executable |-> IF decoded THEN VenvPython(runtime_dir) ELSE NullPath,
                     parse_argv |-> 0, site_import |-> 1]
         IN IF decoded /\ ~setOk
            THEN \* PyConfig_SetString failed: goto fail
                 /\ config' = DefaultConfig
                 /\ stderr' = Append(stderr, MsgInitStderr)
                 /\ EnterShowError("RuntimeInitFailed", MsgInitDialog)
            ELSE /\ config' = cfg
                 /\ IF initOk
                    THEN /\ lpc' = "dispatch"
                         /\ UNCHANGED <<stderr, failure, dialog, pending>>
                    ELSE /\ stderr' = Append(stderr, MsgInitStderr)
                         /\ EnterShowError("RuntimeInitFailed", MsgInitDialog)
    /\ UNCHANGED <<fs, ivars, env, cwd, projMarkers, argv, runtime_dir, project_dir,
                   sys_argv, child, entry, exitCode>>

\* main, lines 172-186 (Dispatch: sys.argv)
SetSysArgv ==
    /\ lpc = "dispatch"
    /\ sys_argv' = BuildSysArgv(argv)
    /\ lpc' = "entry"
    /\ UNCHANGED <<fs, ivars, env, cwd, projMarkers, argv, runtime_dir, project_dir,
                   config, stderr, child, dialog, pending, failure, entry, exitCode>>

\* main, lines 188-195 (Dispatch: the entry point).  PyRun_SimpleString
\* returns 0, or -1 after an exception; on an unhandled SystemExit it does
\* not return: it ends the process with the status given to sys.exit.
RunEntryPoint ==
    /\ lpc = "entry"
    /\ \/ /\ entry' = "returned"
          /\ exitCode' = 0
       \/ /\ entry' = "raised"
          /\ exitCode' = 1
       \/ /\ entry' = "SystemExit"
          /\ exitCode' \in SystemExitCodes
    /\ lpc' = "exited"
    /\ UNCHANGED <<fs, ivars, env, cwd, projMarkers, argv, runtime_dir, project_dir,
                   config, sys_argv, stderr, child, dialog, pending, failure>>

\* show_error, lines 26-35: fork; without a child there is nothing to wait
\* for and main returns 1
ShowErrorFork ==
    /\ lpc = "show_error"
    /\ \/ /\ child' = "forked"
          /\ lpc' = "waitpid"
          /\ UNCHANGED exitCode
       \/ /\ child' = "none"
          /\ lpc' = "exited"
          /\ exitCode' = 1
    /\ UNCHANGED <<fs, ivars, env, cwd, projMarkers, argv, runtime_dir, project_dir,
                   config, sys_argv, stderr, dialog, pending, failure, entry>>

\* the child: execlp("osascript", ...) displays the dialog, or fails and
\* the child calls _exit(1)
ChildExec ==
    /\ child = "forked"
    /\ \/ /\ child' = "dialog"
          /\ dialog' = pending
       \/ /\ child' = "exited"
          /\ UNCHANGED dialog
    /\ UNCHANGED <<fs, ivars, env, cwd, projMarkers, argv, lpc, runtime_dir, project_dir,
                   config, sys_argv, stderr, pending, failure, entry, exitCode>>

\* the dialog is dismissed and osascript exits
ChildExit ==
    /\ child = "dialog"
    /\ child' = "exited"
    /\ UNCHANGED <<fs, ivars, env, cwd, projMarkers, argv, lpc, runtime_dir, project_dir,
                   config, sys_argv, stderr, dialog, pending, failure, entry, exitCode>>

\* waitpid that does not block (WNOHANG): main returns while the child runs
WaitChild_nohang ==
    /\ lpc = "waitpid"
    /\ lpc' = "exited"
    /\ exitCode' = 1
    /\ UNCHANGED <<fs, ivars, env, cwd, projMarkers, argv, runtime_dir, project_dir,
                   config, sys_argv, stderr, child, dialog, pending, failure, entry>>

\* show_error, lines 36-39: waitpid returns once the child has exited; main
\* returns 1
WaitChild ==
    /\ lpc = "waitpid"
    /\ child = "exited"
    /\ child' = "reaped"
    /\ lpc' = "exited"
    /\ exitCode' = 1
    /\ UNCHANGED <<fs, ivars, env, cwd, projMarkers, argv, runtime_dir, project_dir,
                   config, sys_argv, stderr, dialog, pending, failure, entry>>

NextLaunch ==
    \/ Launch
    \/ ResolvePaths
    \/ ValidateRuntime
    \/ BuildEnvironment
    \/ InitEmbeddedRuntime
    \/ SetSysArgv
    \/ RunEntryPoint
    \/ ShowErrorFork
    \/ ChildExec
    \/ ChildExit
    \/ WaitChild

\* the launcher's inputs: its environment, the project checkouts under the
\* home directory, its arguments and the runtime directories on disk
BinaryPath == <<47, 255, 67>>  \* a path of the binary with a byte that is not UTF-8
FlagArg == <<45, 45, 99>>      \* "--c", standing for --check-permissions
ArgStrings == {BinaryPath, FlagArg}
RECURSIVE ArgVectors(_)
ArgVectors(n) ==
    IF n = 0 THEN {<<>>}
    ELSE ArgVectors(n - 1) \cup [1..n -> ArgStrings]

CallerEnvs ==
    { [set |-> S, val |-> [n \in EnvNames |->
            CASE n = "HOME" /\ n \in S -> <<HomeDir>>
              [] n = "CLICKSPEAK_RUNTIME_DIR" /\ n \in S -> r
              [] n = "CLICKSPEAK_PROJECT_DIR" /\ n \in S -> p
              [] n = "PATH" /\ n \in S -> CallerPath
              [] OTHER -> <<>>]] :
        S \in SUBSET {"HOME", "CLICKSPEAK_RUNTIME_DIR", "CLICKSPEAK_PROJECT_DIR", "PATH"},
        r \in {<<>>, CustomRuntimeDir},
        p \in {<<>>, ProjectOverrideDir} }

LaunchDirs ==
    { AbsentDir,
      Installed(Py(3, 12), RequiredVersionString \o <<"\n">>),
      Installed(Py(3, 12), <<ToStr(3), ".", ToStr(11), "\n">>),
      Installed(Py(3, 11), RequiredVersionString \o <<"\n">>),
      Unmarked(Py(3, 12)) }

InitLaunch ==
    /\ fs \in [RuntimeDirs -> LaunchDirs]
    /\ fs[CustomRuntimeDir] \in {AbsentDir, Installed(Py(3, 12), RequiredVersionString \o <<"\n">>)}
    /\ InstallerIdle
    /\ NothingAssembled
    /\ env \in CallerEnvs
    /\ cwd = <<"/">>
    /\ projMarkers \in SUBSET (1..Len(suffixes))
    /\ argv \in ArgVectors(MaxArgs)
    /\ LauncherOff

SpecLaunch == InitLaunch /\ [][NextLaunch]_vars

\* ------------------------------------------ provisioning, then one launch
\* ensure_runtime runs (and is re-run) until it has returned 0; the
\* launcher is then started against the directories the runs left
ProvisionStep == lpc = "off" /\ NextInstall
LaunchStep == ipc = "ensured" /\ NextLaunch

NextProvisionThenLaunch ==
    \/ ProvisionStep
    \/ LaunchStep

\* the launcher's caller has HOME set, and CLICKSPEAK_RUNTIME_DIR unset,
\* empty or naming another directory
HomeEnvs ==
    { e \in CallerEnvs : /\ "HOME" \in e.set
                         /\ "PATH" \notin e.set
                         /\ "CLICKSPEAK_PROJECT_DIR" \notin e.set }

InitProvisionThenLaunch ==
    /\ fs \in [RuntimeDirs -> {AbsentDir, Installed(Py(3, 12), RequiredVersionString \o <<"\n">>)}]
    /\ fs[RUNTIME_DIR] = AbsentDir
    /\ InstallerIdle
    /\ NothingAssembled
    /\ env \in HomeEnvs
    /\ cwd = <<"/">>
    /\ projMarkers \in {{}, {1}}
    /\ argv = <<BinaryPath>>
    /\ LauncherOff

SpecProvisionThenLaunch == InitProvisionThenLaunch /\ [][NextProvisionThenLaunch]_vars

\* --------------------------- one provisioning run beside a launcher process
\* the install script is run once; nothing orders its commands with respect
\* to the steps of a launcher process started by the user
SingleProvisioningStep == NextInstall /\ run' <= 1

NextConcurrent ==
    \/ SingleProvisioningStep
    \/ NextLaunch

\* the runtime directory is absent, ready, or was provisioned by an earlier
\* version of the script for another Python version
InitConcurrent ==
    /\ fs \in [RuntimeDirs -> {AbsentDir,
                               Installed(Py(3, 12), RequiredVersionString \o <<"\n">>),
                               Installed(Py(3, 11), <<ToStr(3), ".", ToStr(11), "\n">>)}]
    /\ fs[CustomRuntimeDir] = AbsentDir
    /\ InstallerIdle
    /\ NothingAssembled
    /\ env \in HomeEnvs
    /\ cwd = <<"/">>
    /\ projMarkers = {}
    /\ argv = <<BinaryPath>>
    /\ LauncherOff

SpecConcurrent == InitConcurrent /\ [][NextConcurrent]_vars

\* ================================================================ claims
\* the version a marker text records: the text without its trailing newlines
RecordedVersion(t) ==
    LET k == CHOOSE k \in 0..Len(t) :
                /\ \A i \in (k + 1)..Len(t) : t[i] = "\n"
                /\ k = 0 \/ t[k] # "\n"
    IN SubSeq(t, 1, k)

\* the version an interpreter reports, <<>> when it cannot be run
ReportedVersion(p) ==
    IF p.kind = "py" THEN <<ToStr(p.major), ".", ToStr(p.minor)>> ELSE <<>>

\* the "ready" invariant of a RuntimeInstallation for required version V
ReadyInvariant(d, V) ==
    /\ Present(d, RUNTIME_PYTHON) /\ d.python.kind \in {"broken", "py"}
    /\ Present(d, RUNTIME_MARKER_FILE)
    /\ RecordedVersion(d.marker) = V
    /\ ReportedVersion(d.python) = V

RequiredVersion == <<"3", ".", "12">>

\* every step of one provisioning run is on disk: all entries exist and were
\* created by the same run
Complete(d) == \E k \in 0..run : \A f \in Files : d.tag[f] = k

\* the launcher went past ValidateRuntime
PassedValidate ==
    \/ lpc \in {"build_env", "init", "dispatch", "entry"}
    \/ entry # "none"
    \/ failure = "RuntimeInitFailed"

\* the launcher reached Dispatch
Dispatched == lpc \in {"dispatch", "entry"} \/ entry # "none"

\* C1: ValidateRuntime accepts the runtime directory iff its marker records
\* the required version and its interpreter is executable and reports that
\* version; a launch against a mismatched marker never reaches Dispatch but
\* fails with RuntimeNotProvisioned, the dialog and exit code 1.
C1_ValidateRuntimeChecksVersion ==
    /\ PassedValidate => ReadyInvariant(fs[runtime_dir], RequiredVersion)
    /\ failure = "RuntimeNotProvisioned" => ~ReadyInvariant(fs[runtime_dir], RequiredVersion)
    /\ (Dispatched /\ Present(fs[runtime_dir], RUNTIME_MARKER_FILE))
          => RecordedVersion(fs[runtime_dir].marker) = RequiredVersion

\* C2: in every state of the runtime directory, also in the middle of
\* ensure_runtime and after a crash or a failed step, a marker file on disk
\* implies that a provisioning run completed all its steps for the
\* installation on disk; a partial directory never satisfies the ready
\* invariant.
C2_MarkerImpliesComplete ==
    /\ Present(Dir, RUNTIME_MARKER_FILE) => Complete(Dir)
    /\ ReadyInvariant(Dir, RequiredVersion) => Complete(Dir)

\* C3: ensure_runtime entered with a ready installation returns success,
\* changes nothing under the runtime directory and runs no interpreter but
\* the installation's own.
C3_ReadyIsNoOp ==
    (run >= 1 /\ ReadyInvariant(fs0, RequiredVersion)) =>
        /\ ipc \in {"ensure", "ensured", "crashed"}
        /\ Dir = fs0
        /\ invoked \subseteq {RUNTIME_PYTHON}
        /\ ipc = "ensured" => irc = 0

\* a second run in a row found the installation the first run built, and
\* returned
C3_Witness ==
    /\ run = 2
    /\ ipc = "ensured"
    /\ ReadyInvariant(fs0, RequiredVersion)
    /\ fs0.tag[RUNTIME_MARKER_FILE] = 1
    /\ invoked = {RUNTIME_PYTHON}

\* C4: without the marker file the runtime is not ready, and a rebuild
\* deletes the whole old installation before any step of the new one: no
\* entry of an earlier run is on disk together with an entry of the current
\* run, and a rebuild that succeeded left only entries of its own.
C4_RebuildFromScratch ==
    /\ ~Present(Dir, RUNTIME_MARKER_FILE) => ~runtime_is_ready(Dir)
    /\ (run >= 1 /\ \E f \in Files : Dir.tag[f] = run)
          => \A g \in Files : Dir.tag[g] \in {-1, run}
    /\ (ipc = "ensured" /\ ~Present(fs0, RUNTIME_MARKER_FILE))
          => \A g \in Files : Dir.tag[g] = run

\* a complete installation that had lost its marker has been rebuilt
C4_Witness ==
    /\ fs0 = Unmarked(Py(3, 12))
    /\ ipc = "ensured"
    /\ \A g \in Files : Dir.tag[g] = run

\* C5: when ensure_runtime has terminated, with success or with a failure at
\* any step, the runtime path holds a fully ready installation or no
\* installation at all.
C5_ReadyOrNothing ==
    (run >= 1 /\ ipc \in {"ensured", "failed"}) =>
        \/ ReadyInvariant(Dir, RequiredVersion) /\ Complete(Dir)
        \/ \A f \in Files : ~Present(Dir, f)

\* C6: runtime_is_ready is true iff the interpreter exists and is
\* executable, the marker file exists, the marker records the required
\* version and the interpreter reports the required version.
C6_ReadyIffFourConditions ==
    runtime_is_ready(Dir) <=> ReadyInvariant(Dir, RequiredVersion)

\* a provisioning run built an installation that the check accepts
C6_Witness ==
    /\ ipc = "ensured"
    /\ Dir.tag[RUNTIME_MARKER_FILE] = run
    /\ run >= 1
    /\ runtime_is_ready(Dir)

\* C7: every launcher-level failure writes a message to the standard error
\* stream and shows the dialog, and then the process exits with status 1.
C7_FailureReportsTwice ==
    (lpc = "exited" /\ failure # "") =>
        /\ stderr # <<>>
        /\ dialog # ""
        /\ exitCode = 1

\* C8: the exit code of the launcher is 0 or 1: 0 exactly when every state
\* succeeded and the entry point ended normally, 1 otherwise.
C8_ExitCodeZeroOrOne ==
    /\ exitCode \in {-1, 0, 1}
    /\ (lpc = "exited" /\ failure = "" /\ entry = "returned") => exitCode = 0
    /\ (lpc = "exited" /\ (failure # "" \/ entry = "raised")) => exitCode = 1
    /\ (lpc = "exited" /\ exitCode = 0) => (failure = "" /\ entry \in {"returned", "SystemExit"})

\* os.fsencode of one code point: the inverse of the decoding
EncodeCodePoint(c) == IF c >= 56320 THEN c - 56320 ELSE c

C10_ProjectResolution ==
    (lpc \in {"validate", "build_env", "init", "dispatch", "entry"}) =>
        LET ov == "CLICKSPEAK_PROJECT_DIR" IN
        IF ov \in env.set /\ env.val[ov] # <<>>
        THEN project_dir = env.val[ov]
        ELSE IF projMarkers = {}
        THEN project_dir = NullPath
        ELSE LET first == CHOOSE i \in projMarkers : \A j \in projMarkers : i <= j
             IN project_dir = <<HomeDir, suffixes[first]>>

\* the marker exists under the second and third candidates, the second is
\* returned
C10_Witness ==
    /\ lpc = "validate"
    /\ "CLICKSPEAK_PROJECT_DIR" \notin env.set
    /\ projMarkers = {2, 3}
    /\ project_dir = <<HomeDir, "/clickspeak">>

\* BuildEnvironment has run
EnvironmentBuilt ==
    \/ lpc \in {"init", "dispatch", "entry"}
    \/ entry # "none"
    \/ failure = "RuntimeInitFailed"

\* C11: with a ProjectLocation the module search path is the project's
\* source directory followed by the runtime's package directory and the
\* working directory is the ProjectLocation; without one the path is the
\* runtime's package directory alone and the working directory is unchanged.
C11_ModuleSearchPath ==
    EnvironmentBuilt =>
        IF project_dir # NullPath
        THEN /\ env.val["PYTHONPATH"] =
                    project_dir \o <<"/src", ":">> \o runtime_dir \o <<"/lib/python3.12/site-packages">>
             /\ cwd = project_dir
        ELSE /\ env.val["PYTHONPATH"] = runtime_dir \o <<"/lib/python3.12/site-packages">>
             /\ cwd = <<"/">>

C18_NoHomeFailsFirst ==
    "HOME" \notin env.set =>
        /\ lpc \in {"off", "resolve", "show_error", "waitpid", "exited"}
        /\ lpc \in {"show_error", "waitpid", "exited"} => failure = "NoHome"
        /\ lpc = "exited" => exitCode = 1
        /\ env \in CallerEnvs
        /\ cwd = <<"/">>
        /\ runtime_dir = NullPath /\ project_dir = NullPath

\* a launch without HOME, with both overrides set, has ended
C18_Witness ==
    /\ "HOME" \notin env.set
    /\ env.val["CLICKSPEAK_RUNTIME_DIR"] = CustomRuntimeDir
    /\ env.val["CLICKSPEAK_PROJECT_DIR"] = ProjectOverrideDir
    /\ lpc = "exited"
    /\ failure = "NoHome"
    /\ exitCode = 1

\* ResolvePaths has succeeded
PathsResolved ==
    \/ lpc \in {"validate", "build_env", "init", "dispatch", "entry"}
    \/ entry # "none"
    \/ failure \in {"RuntimeNotProvisioned", "RuntimeInitFailed"}

\* the runtime root as a function of the runtime override and HOME alone
RuntimeRootOf(e) ==
    IF "CLICKSPEAK_RUNTIME_DIR" \in e.set /\ e.val["CLICKSPEAK_RUNTIME_DIR"] # <<>>
    THEN e.val["CLICKSPEAK_RUNTIME_DIR"]
    ELSE <<HomeDir, RuntimeSuffix>>

\* C19: the runtime root, the marker that is checked and the interpreter
\* that is configured are determined by HOME and the runtime override alone,
\* whatever ProjectLocation is found (two launches that differ only in the
\* project agree on them); the project shows only in the module search path
\* and the working directory, and one launch has at most one ProjectLocation.
C19_RuntimeIndependentOfProject ==
    PathsResolved =>
        /\ runtime_dir = RuntimeRootOf(env)
        /\ PassedValidate =>
              (runtime_dir \in DOMAIN fs /\ Present(fs[runtime_dir], RUNTIME_MARKER_FILE))
        /\ failure = "RuntimeNotProvisioned" =>
              ~(runtime_dir \in DOMAIN fs /\ Present(fs[runtime_dir], RUNTIME_MARKER_FILE))
        /\ config.executable \in {NullPath, RuntimeRootOf(env) \o <<"/bin/python3">>}
        /\ EnvironmentBuilt =>
              /\ env.val["CLICKSPEAK_RUNTIME_DIR"] = RuntimeRootOf(env)
              /\ \A n \in {"PYTHONUNBUFFERED", "PYTHONNOUSERSITE", "PYTHONFAULTHANDLER"} :
                    env.val[n] = <<"1">>
              /\ env.val["CLICKSPEAK_BUNDLE_IDENTIFIER"] = <<"com.lamosty.clickspeak">>
              /\ env.val["CLICKSPEAK_APP_NAME"] = <<"ClickSpeak">>
              /\ SubSeq(env.val["PATH"], 1, 4) = <<"/opt/homebrew/bin", ":", "/usr/local/bin", ":">>
        /\ \/ project_dir = NullPath
           \/ project_dir = env.val["CLICKSPEAK_PROJECT_DIR"]
           \/ \E i \in 1..Len(suffixes) : project_dir = <<HomeDir, suffixes[i]>>

\* a launch with a project found by the probe and one with a project
\* override both use the default runtime root
C19_Witness ==
    /\ lpc = "entry"
    /\ project_dir = <<HomeDir, "/work/clickspeak">>
    /\ runtime_dir = <<HomeDir, RuntimeSuffix>>
    /\ config.executable = <<HomeDir, RuntimeSuffix, "/bin/python3">>
    /\ cwd = project_dir

\* the steps main can take from one position to the next
LauncherOrder ==
    { <<"off", "resolve">>,
      <<"resolve", "validate">>, <<"resolve", "show_error">>,
      <<"validate", "build_env">>, <<"validate", "show_error">>,
      <<"build_env", "init">>,
      <<"init", "dispatch">>, <<"init", "show_error">>,
      <<"dispatch", "entry">>,
      <<"entry", "exited">>,
      <<"show_error", "waitpid">>, <<"show_error", "exited">>,
      <<"waitpid", "exited">> }

\* C20: the launcher's states run in the order ResolvePaths,
\* ValidateRuntime, BuildEnvironment, InitEmbeddedRuntime, Dispatch, each
\* after its predecessor succeeded; Dispatch is reached only if the four
\* earlier states succeeded, and after a failure no later state runs.
C20_StrictOrder ==
    /\ [][lpc' # lpc => <<lpc, lpc'>> \in LauncherOrder]_vars
    /\ [](failure # "" =>
            /\ lpc \in {"show_error", "waitpid", "exited"}
            /\ sys_argv = <<>>
            /\ entry = "none")
    /\ [][failure # "" => (failure' = failure /\ env' = env /\ cwd' = cwd
                            /\ config' = config /\ sys_argv' = sys_argv)]_vars
    /\ [](Dispatched =>
            /\ failure = ""
            /\ runtime_dir # NullPath
            /\ Present(fs[runtime_dir], RUNTIME_MARKER_FILE)
            /\ "PYTHONPATH" \in env.set
            /\ config.parse_argv = 0)

\* a launch went through all five states and the entry point returned
C20_Witness ==
    /\ lpc = "exited"
    /\ entry = "returned"
    /\ failure = ""
    /\ sys_argv # <<>>
    /\ "PYTHONPATH" \in env.set

\* an interpreter qualifies as bootstrap: it can be executed and reports the
\* required major.minor
Qualifies(p) == p.kind \in {"broken", "py"} /\ ReportedVersion(p) = RequiredVersion

\* the candidate the selection order names for host h, "" when none qualifies
SelectedInOrder(h) ==
    IF Qualifies(h.override) THEN "override"
    ELSE IF Qualifies(h.py312) THEN "py312"
    ELSE IF Qualifies(h.py3) THEN "py3"
    ELSE ""

\* the candidates that come after candidate n in the selection order
After(n) ==
    IF n = "override" THEN {"py312", "py3"}
    ELSE IF n = "py312" THEN {"py3"}
    ELSE {}

\* the current run went through the bootstrap selection
SelectionDone ==
    \/ ipc \in {"rm", "mkdir", "venv", "pip_upgrade", "pip_install", "write_marker", "failed"}
    \/ ipc = "crashed" /\ bootstrap # ""

\* C16: the bootstrap interpreter is the first of override, python3.12,
\* python3 that is executable and reports the required version (no later
\* candidate is even run), and the selection fails iff no candidate
\* qualifies.
C16_BootstrapSelectionOrder ==
    SelectionDone =>
        /\ bootstrap = SelectedInOrder(host)
        /\ bootstrap # "" => Qualifies(host[bootstrap]) /\ invoked \cap After(bootstrap) = {}
        /\ bootstrap = "" <=> \A n \in {"override", "py312", "py3"} : ~Qualifies(host[n])
        /\ bootstrap = "" => (ipc = "failed" /\ irc = 1)

\* the override does not qualify, python3.12 is missing, python3 is selected
C16_Witness ==
    /\ ipc = "venv"
    /\ host.override = Py(3, 11)
    /\ host.py312 = NoInterp
    /\ host.py3 = Py(3, 12)
    /\ bootstrap = "py3"
    /\ "override" \in invoked

\* run k wrote a file of the canonical bundle
RewrittenBy(k) == bundle.plist = k \/ bundle.binary = k \/ bundle.icns = k

\* C14: a run of the install script that ended, with success or with a
\* failure, and wrote a file of the canonical bundle has signed the bundle
\* after that.
C14_SignedAfterEveryRewrite ==
    (ipc \in {"done", "failed"} /\ RewrittenBy(run)) => bundle.sig = run

\* the parts of the order of assembly the code and its description share:
\* nothing is written to the canonical bundle while the legacy bundle
\* exists, the manifest is written before the compilation, the signature
\* comes after both, and a successful run leaves no legacy bundle
OrderOfManifestBinarySignature ==
    /\ [][bundle' # bundle => ~legacy]_vars
    /\ [][bundle'.plist # bundle.plist => (bundle.binary # run /\ bundle.sig # run)]_vars
    /\ [][bundle'.binary # bundle.binary => (bundle.plist = run /\ bundle.sig # run)]_vars
    /\ [][bundle'.sig # bundle.sig => (bundle.plist = run /\ bundle.binary = run)]_vars
    /\ [](ipc = "done" => (~legacy /\ bundle.sig = run))

C17_RecompilesOnlyWhenChanged ==
    (/\ ipc = "done"
     /\ bundle0.binary # -1 /\ bundle0.sig # -1
     /\ bundle0.binsrc = launcher_c)
    => bundle.binary = bundle0.binary

\* ensure_runtime built the runtime directory from nothing and returned 0,
\* and the launcher was started after that with HOME set
LaunchedAfterProvisioning ==
    /\ fs0 = AbsentDir
    /\ ipc = "ensured"
    /\ lpc # "off"
    /\ "HOME" \in env.set

\* the run that started from an absent directory created it with all its
\* entries, and the marker was the last entry to appear
ProvisionedMarkerLast ==
    /\ []((fs0 = AbsentDir /\ ipc = "ensured") =>
            (Dir.exists /\ \A f \in Files : Dir.tag[f] = run))
    /\ [][(~Present(Dir, RUNTIME_MARKER_FILE) /\ Present(Dir', RUNTIME_MARKER_FILE)) =>
            (/\ ipc = "write_marker"
             /\ \A f \in Files \ {RUNTIME_MARKER_FILE} : Dir.tag[f] = run)]_vars

\* the launch never enters Failure, unless the initialisation of the
\* embedded interpreter fails, and ends only after Dispatch
ReachesDispatch ==
    /\ failure \in {"", "RuntimeInitFailed"}
    /\ (lpc = "exited" /\ failure = "") => Dispatched

\* C13: from an absent runtime directory, with a qualifying bootstrap and
\* all steps succeeding, ensure_runtime creates the directory and writes the
\* marker last, and a later launch with HOME set and the interpreter
\* initialising reaches Dispatch without entering Failure.
C13_ProvisionThenLaunch ==
    /\ ProvisionedMarkerLast
    /\ [](LaunchedAfterProvisioning => ReachesDispatch)

\* C13 for the launches that look at the directory ensure_runtime built:
\* CLICKSPEAK_RUNTIME_DIR unset, empty or naming that directory.
C13_ProvisionThenLaunchSameDirectory ==
    /\ ProvisionedMarkerLast
    /\ []((LaunchedAfterProvisioning /\ RuntimeRootOf(env) = RUNTIME_DIR) => ReachesDispatch)

\* provisioning from nothing, then a launch that ran the entry point
C13_Witness ==
    /\ LaunchedAfterProvisioning
    /\ RuntimeRootOf(env) = RUNTIME_DIR
    /\ runtime_dir = RUNTIME_DIR
    /\ lpc = "exited"
    /\ entry = "returned"
    /\ exitCode = 0

\* C21: whenever the launcher is at Dispatch the embedded interpreter was
\* initialised with its executable set to <runtime>/bin/python3 of the
\* resolved runtime directory and with the parsing of the process
\* arguments switched off; the executable is never left unconfigured.
C21_ExecutableConfiguredAtDispatch ==
    Dispatched =>
        /\ config.executable = runtime_dir \o <<"/bin/python3">>
        /\ config.executable # NullPath
        /\ config.parse_argv = 0

\* the current run found the installation not ready and no candidate that
\* qualifies as bootstrap
NoBootstrapRun ==
    /\ ipc # "idle"
    /\ ~ReadyInvariant(fs0, RequiredVersion)
    /\ \A n \in {"override", "py312", "py3"} : ~Qualifies(host[n])

\* C22: a run that finds the installation not ready and no qualifying
\* bootstrap interpreter fails in ensure_runtime with status 1 and changes
\* nothing: the runtime directory, the legacy bundle and the canonical
\* bundle are as they were when the run started.
C22_NoBootstrapTouchesNothing ==
    NoBootstrapRun =>
        /\ ipc \in {"ensure", "failed", "crashed"}
        /\ ipc = "failed" => (irc = 1 /\ bootstrap = "")
        /\ fs[RUNTIME_DIR] = fs0
        /\ fs[CustomRuntimeDir] = AbsentDir
        /\ bundle = bundle0
        /\ legacy = legacy0

\* a half-built runtime directory, a legacy bundle and an installed bundle
\* survive a run that finds no bootstrap interpreter
C22_Witness ==
    /\ NoBootstrapRun
    /\ ipc = "failed"
    /\ fs0.exists /\ Present(fs0, RUNTIME_PYTHON) /\ ~Present(fs0, RUNTIME_MARKER_FILE)
    /\ fs[RUNTIME_DIR] = fs0
    /\ legacy
    /\ bundle # NoBundle

\* the launcher is past ValidateRuntime and in InitEmbeddedRuntime or Dispatch
InitialisingOrDispatching == lpc \in {"init", "dispatch", "entry"}

\* C23: with one provisioning run beside a launcher process, a launch that
\* passed the marker check is never in InitEmbeddedRuntime or Dispatch while
\* the installation it resolved is deleted, half-deleted or partly rebuilt:
\* the directory exists with all its entries, left by one provisioning.
C23_NoLaunchIntoRebuild ==
    (run <= 1 /\ InitialisingOrDispatching) =>
        /\ runtime_dir \in DOMAIN fs
        /\ fs[runtime_dir].exists
        /\ \E k \in 0..run : \A f \in Files : fs[runtime_dir].tag[f] = k

====
